---- MODULE Spec2Model ----
(***************************************************************************)
(* The per-speaker audio slice engine of discrivener                      *)
(* (src/src/model/audio_slice.rs): one AudioSlice, the requests it has    *)
(* issued to the speech-to-text worker and the responses that come back.  *)
(*                                                                         *)
(* Representation.                                                         *)
(*  - A u32 media timestamp (Wrapping<u32>) is a record [hi, lo] of two   *)
(*    16-bit halves; U32Add / U32Sub wrap modulo 2^32 exactly.  (TLC's    *)
(*    integers are 32-bit signed, so 2^32 itself cannot be written.)      *)
(*  - A Duration is a number of milliseconds; a SystemTime is a number of *)
(*    milliseconds on the wall clock `now`.                               *)
(*  - audio: Vec<f32> is run-length encoded: a sequence of runs           *)
(*    [val, n], n > 0, adjacent runs holding different values.  A sample  *)
(*    value v stands for the f32  v / DISCORD_AUDIO_MAX_VALUE_TWO_SAMPLES *)
(*    (the sum of the two channel samples before the division).           *)
(*  - discord_audio: &[i16] is [len, val]: `vec![val; len]`.              *)
(*  - Option<T> is NoneV or SomeV(x).                                     *)
(***************************************************************************)
EXTENDS Integers, Sequences, FiniteSets, TLC

\* ------------------------------------------------------------ constants

DISCORD_AUDIO_CHANNELS == 2
DISCORD_SAMPLES_PER_SECOND == 48000
WHISPER_SAMPLES_PER_SECOND == 16000
WHISPER_SAMPLES_PER_MILLISECOND == 16
RTC_CLOCK_SAMPLES_PER_MILLISECOND == 48
BITRATE_CONVERSION_RATIO == DISCORD_SAMPLES_PER_SECOND \div WHISPER_SAMPLES_PER_SECOND
AUDIO_TO_RECORD_SECONDS == 30
\* AUDIO_TO_RECORD: Duration::from_secs(AUDIO_TO_RECORD_SECONDS), in ms
AUDIO_TO_RECORD == AUDIO_TO_RECORD_SECONDS * 1000
WHISPER_AUDIO_BUFFER_SIZE == WHISPER_SAMPLES_PER_SECOND * AUDIO_TO_RECORD_SECONDS
AUTO_TRANSCRIPTION_PERIOD_MS == 5000
\* USER_SILENCE_TIMEOUT: Duration::from_millis(USER_SILENCE_TIMEOUT_MS), in ms
USER_SILENCE_TIMEOUT_MS == 1000
USER_SILENCE_TIMEOUT == USER_SILENCE_TIMEOUT_MS
\* i16::MAX as f32
DISCORD_AUDIO_MAX_VALUE == 32767
DISCORD_AUDIO_MAX_VALUE_TWO_SAMPLES == DISCORD_AUDIO_MAX_VALUE * DISCORD_AUDIO_CHANNELS
\* Duration::from_secs(1000) added to now() for a final request, in ms
FINAL_REQUEST_HORIZON == 1000 * 1000

\* --------------------------------------------------------------- bounds

\* audio never grows past this many samples (add_audio is not offered beyond)
MaxAudioLen == 81000
\* the wall clock stops being read for new stamps after this many ms
MaxNow == 14000
\* the wall clock at construction
NowInit == 10000
\* silences are counted up to this many
MaxSilences == 3
\* the samples the buffer may hold where audio comes half a minute on
MaxFarLen == 500000

\* ------------------------------------------------------------- Option<T>

NoneV == [some |-> FALSE]
SomeV(x) == [some |-> TRUE, v |-> x]

\* ------------------------------------------------- Wrapping<u32> (types.rs)

W16 == 65536
\* the u32 of a natural n < 2^31 (`n as u32`)
U32(n) == [hi |-> (n \div W16) % W16, lo |-> n % W16]
\* the u32 a + b (wrapping)
U32Add(a, b) ==
    LET lo == a.lo + b.lo
    IN  [hi |-> (a.hi + b.hi + (lo \div W16)) % W16, lo |-> lo % W16]
\* the u32 a - b (wrapping)
U32Sub(a, b) ==
    LET lo == a.lo - b.lo
        borrow == IF lo < 0 THEN 1 ELSE 0
    IN  [hi |-> (a.hi - b.hi - borrow + W16) % W16, lo |-> (lo + W16) % W16]
\* a < b as unsigned 32-bit values (Wrapping<u32>: PartialOrd on the inner u32)
U32Lt(a, b) == a.hi < b.hi \/ (a.hi = b.hi /\ a.lo < b.lo)
U32Ge(a, b) == ~U32Lt(a, b)
\* 2^32 - n for 0 < n < 2^31: the timestamp n ticks before the clock wraps
U32Neg(n) == U32Sub(U32(0), U32(n))

\* ------------------------------------------------------ unit conversions

\* fn duration_to_rtc: (ms * 48) as u32.  Durations of the model stay below
\* 2^31 / 48 ms, so the product is exact before the truncation.
duration_to_rtc(duration) == U32(duration * RTC_CLOCK_SAMPLES_PER_MILLISECOND)

\* rtc_timestamp_to_index whose difference stops at zero instead of wrapping
rtc_timestamp_to_index_saturating(ts1, ts2) ==
    LET delta == IF U32Lt(ts2, ts1) THEN U32(0) ELSE U32Sub(ts2, ts1)
        r == RTC_CLOCK_SAMPLES_PER_MILLISECOND \div WHISPER_SAMPLES_PER_MILLISECOND
    IN  (delta.hi \div r) * W16 + (((delta.hi % r) * W16 + delta.lo) \div r)

\* fn rtc_timestamp_to_index: delta * 16 / 48 on a 64-bit usize, delta the
\* wrapping difference ts2 - ts1.  In 64 bits the product cannot overflow and
\* floor(16 * delta / 48) = floor(delta / 3); the division is carried out on
\* the two halves of delta.
rtc_timestamp_to_index(ts1, ts2) ==
    LET delta == U32Sub(ts2, ts1)
        r == RTC_CLOCK_SAMPLES_PER_MILLISECOND \div WHISPER_SAMPLES_PER_MILLISECOND
    IN  (delta.hi \div r) * W16 + (((delta.hi % r) * W16 + delta.lo) \div r)

\* fn discord_samples_to_whisper_samples
discord_samples_to_whisper_samples(samples) ==
    samples \div (BITRATE_CONVERSION_RATIO * DISCORD_AUDIO_CHANNELS)

\* fn samples_to_duration, in ms
samples_to_duration(num_samples) == num_samples \div WHISPER_SAMPLES_PER_MILLISECOND

\* ------------------------------------------- Vec<f32>, run-length encoded

RECURSIVE RunsLen(_)
\* Vec::len
RunsLen(a) == IF a = <<>> THEN 0 ELSE Head(a).n + RunsLen(Tail(a))

\* a run of n samples of value val appended to a (merging equal neighbours)
RunsPush(a, val, n) ==
    IF n = 0 THEN a
    ELSE IF a # <<>> /\ a[Len(a)].val = val
         THEN [a EXCEPT ![Len(a)].n = @ + n]
         ELSE Append(a, [val |-> val, n |-> n])

RECURSIVE RunsCat(_, _)
\* the samples of a followed by those of b
RunsCat(a, b) ==
    IF b = <<>> THEN a ELSE RunsCat(RunsPush(a, Head(b).val, Head(b).n), Tail(b))

RECURSIVE RunsTake(_, _)
\* the first k samples of a: &a[..k]
RunsTake(a, k) ==
    IF k = 0 \/ a = <<>> THEN <<>>
    ELSE IF Head(a).n >= k THEN <<[val |-> Head(a).val, n |-> k]>>
    ELSE <<Head(a)>> \o RunsTake(Tail(a), k - Head(a).n)

RECURSIVE RunsDrop(_, _)
\* a without its first k samples: &a[k..]
RunsDrop(a, k) ==
    IF k = 0 \/ a = <<>> THEN a
    ELSE IF Head(a).n > k THEN <<[val |-> Head(a).val, n |-> Head(a).n - k]>> \o Tail(a)
    ELSE RunsDrop(Tail(a), k - Head(a).n)

\* sample i (0-based) of a
RunsAt(a, i) == Head(RunsDrop(a, i)).val

\* Vec::resize(new_len, 0.0), new_len >= len as add_audio calls it
RunsResize(a, new_len) ==
    IF new_len > RunsLen(a) THEN RunsPush(a, 0, new_len - RunsLen(a)) ELSE RunsTake(a, new_len)

\* a with samples [i, j) overwritten by val
RunsFill(a, i, j, val) ==
    RunsCat(RunsPush(RunsTake(a, i), val, j - i), RunsDrop(a, j))

\* ------------------------------------------------------------ the slice

VARIABLES
    audio,                    \* AudioSlice.audio
    finalized,                \* AudioSlice.finalized
    last_request,             \* AudioSlice.last_request: Option<LastRequestInfo>
    slice_id,                 \* AudioSlice.slice_id
    start_time,               \* AudioSlice.start_time: Option<(rtc, wall)>
    tentative_transcript_opt, \* AudioSlice.tentative_transcript_opt
    now,                      \* the wall clock SystemTime::now() reads, in ms
    in_flight,                \* requests handed out whose response is not yet delivered
    panicked,                 \* a call has ended in a Rust panic
    tentative_behind,         \* history: ms removed from the head since the tentative was stored
    silences,                 \* history: how often finalize() found the slice not yet finalized
    call                      \* history: the last call made on the slice and what it returned

sliceVars == <<audio, finalized, last_request, slice_id, start_time, tentative_transcript_opt>>
vars == <<audio, finalized, last_request, slice_id, start_time, tentative_transcript_opt,
          now, in_flight, panicked, tentative_behind, silences, call>>

\* the AudioSlice as one value
Slice ==
    [audio |-> audio, finalized |-> finalized, last_request |-> last_request,
     slice_id |-> slice_id, start_time |-> start_time,
     tentative_transcript_opt |-> tentative_transcript_opt]

\* the AudioSlice after the step
SliceNext ==
    [audio |-> audio', finalized |-> finalized', last_request |-> last_request',
     slice_id |-> slice_id', start_time |-> start_time',
     tentative_transcript_opt |-> tentative_transcript_opt']

SetSlice(s) ==
    /\ audio' = s.audio
    /\ finalized' = s.finalized
    /\ last_request' = s.last_request
    /\ slice_id' = s.slice_id
    /\ start_time' = s.start_time
    /\ tentative_transcript_opt' = s.tentative_transcript_opt

\* the slice_id the slice is built with
SliceId == 123

\* AudioSlice::new
new(id) ==
    [audio |-> <<>>, finalized |-> FALSE, last_request |-> NoneV, slice_id |-> id,
     start_time |-> NoneV, tentative_transcript_opt |-> NoneV]

\* clear that forgets to drop the last request
clear_keeps_request(s) ==
    [s EXCEPT !.audio = <<>>, !.finalized = FALSE,
              !.start_time = NoneV, !.tentative_transcript_opt = NoneV]

\* AudioSlice::clear
clear(s) ==
    [s EXCEPT !.audio = <<>>, !.finalized = FALSE, !.last_request = NoneV,
              !.start_time = NoneV, !.tentative_transcript_opt = NoneV]

\* AudioSlice::buffer_duration, in ms
buffer_duration(s) == samples_to_duration(RunsLen(s.audio))

\* fits_within_this_slice that takes the window never to wrap
fits_within_this_slice_unwrapped(s, rtc_timestamp) ==
    IF s.start_time.some
    THEN LET start_rtc == s.start_time.v.rtc
             current_end == U32Add(start_rtc, duration_to_rtc(buffer_duration(s)))
             end == U32Add(current_end, duration_to_rtc(AUDIO_TO_RECORD))
         IN  U32Ge(rtc_timestamp, start_rtc) /\ U32Lt(rtc_timestamp, end)
    ELSE TRUE

\* AudioSlice::fits_within_this_slice
fits_within_this_slice(s, rtc_timestamp) ==
    IF s.start_time.some
    THEN LET start_rtc == s.start_time.v.rtc
             current_end == U32Add(start_rtc, duration_to_rtc(buffer_duration(s)))
             timeout == duration_to_rtc(AUDIO_TO_RECORD)
             end == U32Add(current_end, timeout)
         IN  IF U32Lt(start_rtc, end)
             THEN U32Ge(rtc_timestamp, start_rtc) /\ U32Lt(rtc_timestamp, end)
             ELSE U32Lt(rtc_timestamp, end) \/ U32Ge(rtc_timestamp, start_rtc)
    ELSE TRUE

\* the f32 written for one chunk of 6 input samples: the sum of its first
\* DISCORD_AUDIO_CHANNELS samples (over DISCORD_AUDIO_MAX_VALUE_TWO_SAMPLES)
ChunkSample(discord_audio) == discord_audio.val * DISCORD_AUDIO_CHANNELS

\* resample_audio_from_discord_to_whisper that resizes the buffer to the end of
\* what it writes
resample_audio_to_end_index(s, start_index, discord_audio) ==
    LET end_index == start_index + discord_samples_to_whisper_samples(discord_audio.len)
        resized == RunsResize(s.audio, end_index)
    IN  [s EXCEPT !.audio = RunsFill(resized, start_index, end_index, ChunkSample(discord_audio))]

\* AudioSlice::resample_audio_from_discord_to_whisper
resample_audio_from_discord_to_whisper(s, start_index, discord_audio) ==
    LET end_index == start_index + discord_samples_to_whisper_samples(discord_audio.len)
        buffer_len == IF RunsLen(s.audio) > end_index THEN RunsLen(s.audio) ELSE end_index
        resized == RunsResize(s.audio, buffer_len)
    IN  [s EXCEPT !.audio = RunsFill(resized, start_index, end_index, ChunkSample(discord_audio))]

\* the index add_audio writes at
add_audio_start_index(s, rtc_timestamp) ==
    IF s.start_time.some THEN rtc_timestamp_to_index(s.start_time.v.rtc, rtc_timestamp) ELSE 0

\* add_audio that clears `finalized` before it looks whether the timestamp fits
add_audio_unfinalizes_first(s, rtc_timestamp, discord_audio, t) ==
    LET s0 == [s EXCEPT !.finalized = FALSE]
    IN  IF ~fits_within_this_slice(s0, rtc_timestamp) THEN s0
        ELSE LET start_index == add_audio_start_index(s0, rtc_timestamp)
                 started == IF s0.start_time.some THEN s0.start_time
                            ELSE SomeV([rtc |-> rtc_timestamp, wall |-> t])
                 s1 == [s0 EXCEPT !.start_time = started]
             IN  resample_audio_from_discord_to_whisper(s1, start_index, discord_audio)

\* AudioSlice::add_audio; t is what SystemTime::now() returns
add_audio(s, rtc_timestamp, discord_audio, t) ==
    IF ~fits_within_this_slice(s, rtc_timestamp) THEN s
    ELSE LET start_index == add_audio_start_index(s, rtc_timestamp)
             started == IF s.start_time.some THEN s.start_time
                        ELSE SomeV([rtc |-> rtc_timestamp, wall |-> t])
             s1 == [s EXCEPT !.finalized = FALSE, !.start_time = started]
         IN  resample_audio_from_discord_to_whisper(s1, start_index, discord_audio)

\* LastRequestInfo::effective_duration; Duration's `-` panics below zero
effective_duration(lr) == lr.original_duration - lr.audio_trimmed_since_request
effective_duration_panics(lr) == lr.audio_trimmed_since_request > lr.original_duration

\* is_ready_for_transcription with the last period taken from the duration as
\* first requested, whatever was trimmed since
is_ready_for_transcription_untrimmed(s, user_silent) ==
    IF ~s.start_time.some THEN FALSE
    ELSE IF s.finalized THEN TRUE
    ELSE IF s.last_request.some /\ s.last_request.v.in_progress THEN FALSE
    ELSE IF user_silent THEN TRUE
    ELSE LET current_period == buffer_duration(s) \div AUTO_TRANSCRIPTION_PERIOD_MS
             last_period ==
                 IF s.last_request.some
                 THEN s.last_request.v.original_duration \div AUTO_TRANSCRIPTION_PERIOD_MS
                 ELSE 0
         IN  last_period # current_period

\* is_ready_for_transcription with the user's silence looked at before the
\* request in progress
is_ready_for_transcription_silent_first(s, user_silent) ==
    IF ~s.start_time.some THEN FALSE
    ELSE IF s.finalized THEN TRUE
    ELSE IF user_silent THEN TRUE
    ELSE IF s.last_request.some /\ s.last_request.v.in_progress THEN FALSE
    ELSE LET current_period == buffer_duration(s) \div AUTO_TRANSCRIPTION_PERIOD_MS
             last_period ==
                 IF s.last_request.some
                 THEN (s.last_request.v.original_duration
                         - s.last_request.v.audio_trimmed_since_request)
                      \div AUTO_TRANSCRIPTION_PERIOD_MS
                 ELSE 0
         IN  last_period # current_period

\* AudioSlice::is_ready_for_transcription
is_ready_for_transcription(s, user_silent) ==
    IF ~s.start_time.some THEN FALSE
    ELSE IF s.finalized THEN TRUE
    ELSE IF s.last_request.some /\ s.last_request.v.in_progress THEN FALSE
    ELSE IF user_silent THEN TRUE
    ELSE LET current_period == buffer_duration(s) \div AUTO_TRANSCRIPTION_PERIOD_MS
             last_period ==
                 IF s.last_request.some
                 THEN effective_duration(s.last_request.v) \div AUTO_TRANSCRIPTION_PERIOD_MS
                 ELSE 0
         IN  last_period # current_period

\* is_ready_for_transcription reaches effective_duration() and that panics
is_ready_panics(s, user_silent) ==
    /\ s.start_time.some
    /\ ~s.finalized
    /\ s.last_request.some
    /\ ~s.last_request.v.in_progress
    /\ ~user_silent
    /\ effective_duration_panics(s.last_request.v)

\* make_transcription_request whose suppressed duplicate copies the final flag of
\* the new snapshot into the last request
make_transcription_request_copies_final(s, user_idle, t) ==
    IF ~is_ready_for_transcription(s, user_idle) THEN [slice |-> s, ret |-> NoneV]
    ELSE IF /\ s.last_request.some
            /\ s.last_request.v.start_time = s.start_time.v.wall
            /\ s.last_request.v.original_duration = buffer_duration(s)
         THEN [slice |-> [s EXCEPT !.last_request.v.final_request = s.finalized],
               ret |-> NoneV]
         ELSE [slice |-> [s EXCEPT !.last_request =
                             SomeV([start_time |-> s.start_time.v.wall,
                                    audio_trimmed_since_request |-> 0,
                                    original_duration |-> buffer_duration(s),
                                    in_progress |-> TRUE, requested_at |-> t,
                                    final_request |-> s.finalized])],
               ret |-> SomeV([duration |-> buffer_duration(s),
                              start_time |-> s.start_time.v.wall])]

\* make_transcription_request that does not compare with the last request
make_transcription_request_again(s, user_idle, t) ==
    IF ~is_ready_for_transcription(s, user_idle) THEN [slice |-> s, ret |-> NoneV]
    ELSE [slice |-> [s EXCEPT !.last_request =
                        SomeV([start_time |-> s.start_time.v.wall,
                               audio_trimmed_since_request |-> 0,
                               original_duration |-> buffer_duration(s),
                               in_progress |-> TRUE, requested_at |-> t,
                               final_request |-> s.finalized])],
          ret |-> SomeV([duration |-> buffer_duration(s),
                         start_time |-> s.start_time.v.wall])]

\* AudioSlice::make_transcription_request; t is what SystemTime::now() returns.
\* The result is [slice, ret]; ret is Some((duration, start_time)): the bytes of
\* the snapshot are the audio itself and are not carried in the model.
make_transcription_request(s, user_idle, t) ==
    IF ~is_ready_for_transcription(s, user_idle) THEN [slice |-> s, ret |-> NoneV]
    ELSE LET st == s.start_time.v.wall
             duration == buffer_duration(s)
             new_request ==
                 [start_time |-> st, audio_trimmed_since_request |-> 0,
                  original_duration |-> buffer_duration(s), in_progress |-> TRUE,
                  requested_at |-> t, final_request |-> s.finalized]
         IN  IF /\ s.last_request.some
                /\ s.last_request.v.start_time = new_request.start_time
                /\ s.last_request.v.original_duration = new_request.original_duration
             THEN [slice |-> IF new_request.final_request
                             THEN [s EXCEPT !.last_request.v.final_request = TRUE]
                             ELSE s,
                   ret |-> NoneV]
             ELSE [slice |-> [s EXCEPT !.last_request = SomeV(new_request)],
                   ret |-> SomeV([duration |-> duration, start_time |-> st])]

\* discard_audio that does not tell the last request what was trimmed
discard_audio_untold(s, duration) ==
    LET discard_idx == duration * WHISPER_SAMPLES_PER_MILLISECOND
    IN  IF duration = 0 THEN s
        ELSE IF discard_idx >= RunsLen(s.audio) THEN clear(s)
        ELSE [s EXCEPT
                !.audio = RunsDrop(s.audio, discard_idx),
                !.start_time =
                    IF s.start_time.some
                    THEN SomeV([rtc |-> U32Add(s.start_time.v.rtc, duration_to_rtc(duration)),
                                wall |-> s.start_time.v.wall + duration])
                    ELSE s.start_time]

\* discard_audio that moves the media start and leaves the wall-clock start
discard_audio_keeps_wall(s, duration) ==
    LET discard_idx == duration * WHISPER_SAMPLES_PER_MILLISECOND
    IN  IF duration = 0 THEN s
        ELSE IF discard_idx >= RunsLen(s.audio) THEN clear(s)
        ELSE [s EXCEPT
                !.audio = RunsDrop(s.audio, discard_idx),
                !.start_time =
                    IF s.start_time.some
                    THEN SomeV([rtc |-> U32Add(s.start_time.v.rtc, duration_to_rtc(duration)),
                                wall |-> s.start_time.v.wall])
                    ELSE s.start_time,
                !.last_request =
                    IF s.last_request.some
                    THEN SomeV([s.last_request.v EXCEPT
                                  !.audio_trimmed_since_request = @ + duration])
                    ELSE s.last_request]

\* discard_audio that clears only when asked for more than the buffer holds
discard_audio_more(s, duration) ==
    LET discard_idx == duration * WHISPER_SAMPLES_PER_MILLISECOND
    IN  IF duration = 0 THEN s
        ELSE IF discard_idx > RunsLen(s.audio) THEN clear(s)
        ELSE [s EXCEPT
                !.audio = RunsDrop(s.audio, discard_idx),
                !.start_time =
                    IF s.start_time.some
                    THEN SomeV([rtc |-> U32Add(s.start_time.v.rtc, duration_to_rtc(duration)),
                                wall |-> s.start_time.v.wall + duration])
                    ELSE s.start_time,
                !.last_request =
                    IF s.last_request.some
                    THEN SomeV([s.last_request.v EXCEPT
                                  !.audio_trimmed_since_request = @ + duration])
                    ELSE s.last_request]

\* discard_audio that leaves the buffer as it is
discard_audio_nothing(s, duration) == s

\* AudioSlice::discard_audio
discard_audio(s, duration) ==
    LET discard_idx == duration * WHISPER_SAMPLES_PER_MILLISECOND
    IN  IF duration = 0 THEN s
        ELSE IF discard_idx >= RunsLen(s.audio) THEN clear(s)
        ELSE [s EXCEPT
                !.audio = RunsDrop(s.audio, discard_idx),
                !.start_time =
                    IF s.start_time.some
                    THEN SomeV([rtc |-> U32Add(s.start_time.v.rtc, duration_to_rtc(duration)),
                                wall |-> s.start_time.v.wall + duration])
                    ELSE s.start_time,
                !.last_request =
                    IF s.last_request.some
                    THEN SomeV([s.last_request.v EXCEPT
                                  !.audio_trimmed_since_request = @ + duration])
                    ELSE s.last_request]

\* finalize that hands the tentative transcript out and keeps the buffer
finalize_keeps_buffer(s) ==
    LET s1 == [s EXCEPT !.finalized = TRUE]
    IN  IF ~s1.tentative_transcript_opt.some THEN [slice |-> s1, ret |-> NoneV]
        ELSE LET tentative_transcript == s1.tentative_transcript_opt.v
                 s2 == [s1 EXCEPT !.tentative_transcript_opt = NoneV]
             IN  IF tentative_transcript.audio_duration # buffer_duration(s2)
                 THEN [slice |-> s2, ret |-> NoneV]
                 ELSE [slice |-> s2, ret |-> SomeV(tentative_transcript)]

\* AudioSlice::finalize; the result is [slice, ret]
finalize(s) ==
    LET s1 == [s EXCEPT !.finalized = TRUE]
    IN  IF ~s1.tentative_transcript_opt.some THEN [slice |-> s1, ret |-> NoneV]
        ELSE LET tentative_transcript == s1.tentative_transcript_opt.v
                 s2 == [s1 EXCEPT !.tentative_transcript_opt = NoneV]
             IN  IF tentative_transcript.audio_duration # buffer_duration(s2)
                 THEN [slice |-> s2, ret |-> NoneV]
                 ELSE [slice |-> clear(s2), ret |-> SomeV(tentative_transcript)]

\* ------------------------------------------------- Transcription (api types)

\* The segments of `transcript` that end on or before end_time: the finalized half
\* of split_at_end_time.  A segment is [t_start, t_end], ms from start_timestamp.
FinalSegments(transcript, end_time) ==
    SelectSeq(transcript.segments,
              LAMBDA g: transcript.start_timestamp + g.t_end <= end_time)

\* The rest: the tentative half.
TentativeSegments(transcript, end_time) ==
    SelectSeq(transcript.segments,
              LAMBDA g: ~(transcript.start_timestamp + g.t_end <= end_time))

\* Where the audio may be cut between the two halves: not before the end of the
\* last finalized segment, not after the start of the first tentative one.
SplitPoints(transcript, end_time) ==
    LET fin == FinalSegments(transcript, end_time)
        tent == TentativeSegments(transcript, end_time)
        lo == IF fin = <<>> THEN 0 ELSE fin[Len(fin)].t_end
        hi == IF tent = <<>> THEN transcript.audio_duration ELSE tent[1].t_start
    IN  {lo, hi}

\* Transcription::split_at_end_time with the audio cut at `cut`: the result is
\* [finalized, tentative], whose audio durations sum to the original's.
split_at_end_time(transcript, end_time, cut) ==
    LET tent == TentativeSegments(transcript, end_time)
    IN  [finalized |->
            [start_timestamp |-> transcript.start_timestamp,
             audio_duration |-> cut,
             segments |-> FinalSegments(transcript, end_time)],
         tentative |->
            [start_timestamp |-> transcript.start_timestamp + cut,
             audio_duration |-> transcript.audio_duration - cut,
             segments |-> [i \in 1..Len(tent) |->
                             [t_start |-> tent[i].t_start - cut,
                              t_end |-> tent[i].t_end - cut]]]]

\* Transcription::is_empty
is_empty(transcript) == transcript.segments = <<>>

\* response_matches without the comparison of the durations
response_matches_start_only(s, message) ==
    /\ s.last_request.some
    /\ s.last_request.v.start_time = message.start_timestamp

\* response_matches without the comparison of the start times
response_matches_duration_only(s, message) ==
    /\ s.last_request.some
    /\ message.audio_duration = s.last_request.v.original_duration

\* whether handle_transcription_response takes `message` for the last request
response_matches(s, message) ==
    /\ s.last_request.some
    /\ s.last_request.v.start_time = message.start_timestamp
    /\ message.audio_duration = s.last_request.v.original_duration

\* response_end_time that does not look at final_request
response_end_time_never_final(lr, t) == lr.requested_at - USER_SILENCE_TIMEOUT

\* the end_time handle_transcription_response splits at; t is SystemTime::now()
response_end_time(lr, t) ==
    IF lr.final_request THEN t + FINAL_REQUEST_HORIZON
    ELSE lr.requested_at - USER_SILENCE_TIMEOUT

\* handle_transcription_response that keeps the tentative half whatever the
\* buffer holds after the discard
handle_transcription_response_keeps_tentative(s, message, t, cut) ==
    IF ~response_matches(s, message) THEN [slice |-> s, ret |-> NoneV]
    ELSE LET s1 == [s EXCEPT !.last_request.v.in_progress = FALSE]
             end_time == response_end_time(s1.last_request.v, t)
             halves == split_at_end_time(message, end_time, cut)
             s2 == discard_audio(s1, halves.finalized.audio_duration)
             s3 == [s2 EXCEPT !.tentative_transcript_opt = SomeV(halves.tentative)]
         IN  [slice |-> s3,
              ret |-> IF is_empty(halves.finalized) THEN NoneV
                      ELSE SomeV(halves.finalized)]

\* AudioSlice::handle_transcription_response; t is what SystemTime::now() returns
\* and cut is where split_at_end_time cuts the audio.  The result is [slice, ret].
handle_transcription_response(s, message, t, cut) ==
    IF ~response_matches(s, message) THEN [slice |-> s, ret |-> NoneV]
    ELSE LET s1 == [s EXCEPT !.last_request.v.in_progress = FALSE]
             end_time == response_end_time(s1.last_request.v, t)
             halves == split_at_end_time(message, end_time, cut)
             s2 == discard_audio(s1, halves.finalized.audio_duration)
             s3 == [s2 EXCEPT !.tentative_transcript_opt =
                        IF buffer_duration(s2) = halves.tentative.audio_duration
                        THEN SomeV(halves.tentative) ELSE NoneV]
         IN  [slice |-> s3,
              ret |-> IF is_empty(halves.finalized) THEN NoneV
                      ELSE SomeV(halves.finalized)]

\* ---------------------------------------------------------- environment

\* `vec![val; len]` of `ms` milliseconds of stereo 48 kHz input
FrameOfMs(ms, val) ==
    [len |-> ms * (DISCORD_SAMPLES_PER_SECOND \div 1000) * DISCORD_AUDIO_CHANNELS, val |-> val]

\* the media timestamp `ms` milliseconds after the clock's zero
RtcOfMs(ms) == U32(ms * RTC_CLOCK_SAMPLES_PER_MILLISECOND)

\* the media timestamp a quarter of a second before the 32-bit clock wraps
RtcBeforeWrap == U32Neg(250 * RTC_CLOCK_SAMPLES_PER_MILLISECOND)

\* packets offered to add_audio, each <<rtc_timestamp, discord_audio>>:
\* 500 ms at 1000 and at 4000 ms and a quarter of a second before the wrap;
\* 4999 ms at 1000 ms and 2 ms right after it; 8 output samples (half a
\* millisecond) at 1500 ms; half a chunk (no output sample) at 1000 ms
Packets ==
    {<<RtcOfMs(1000), FrameOfMs(500, 1)>>, <<RtcOfMs(4000), FrameOfMs(500, 1)>>,
     <<RtcBeforeWrap, FrameOfMs(500, 1)>>,
     <<RtcOfMs(1000), FrameOfMs(4999, 1)>>, <<RtcOfMs(5999), FrameOfMs(2, 2)>>,
     <<RtcOfMs(1500), [len |-> 48, val |-> 3]>>,
     <<RtcOfMs(1000), [len |-> 3, val |-> 4]>>}

\* the packets offered where the speaker's silences are counted
PacketsSilences ==
    {<<RtcOfMs(1000), FrameOfMs(500, 1)>>, <<RtcOfMs(4000), FrameOfMs(500, 1)>>,
     <<RtcOfMs(4500), FrameOfMs(500, 2)>>}

\* the packets offered where the slice is also discarded and cleared from outside
PacketsOps ==
    {<<RtcOfMs(1000), FrameOfMs(500, 1)>>, <<RtcBeforeWrap, FrameOfMs(500, 1)>>,
     <<RtcOfMs(1500), [len |-> 48, val |-> 3]>>}

\* a packet half a minute after the slice's first: 500 ms at 31000 ms
PacketsFar == {<<RtcOfMs(31000), FrameOfMs(500, 1)>>}

\* how far the wall clock has moved on when it is next read for a stamp
TimeSteps == {1000, 3000}

\* durations offered to discard_audio on slice s: half a second, and all the
\* whole milliseconds the buffer holds
DiscardDurations(s) == {500, buffer_duration(s)}

\* what the speech-to-text worker may answer for `duration` ms of audio: nothing,
\* one segment, or two segments meeting at 1000 ms or at 3000 ms
Segmentations(duration) ==
    {<<>>, <<[t_start |-> 0, t_end |-> duration]>>}
        \cup {<<[t_start |-> 0, t_end |-> c], [t_start |-> c, t_end |-> duration]>> :
                c \in {c \in {1000, 3000} : c < duration}}

\* the response to request r with the given segments
ResponseTo(r, segments) ==
    [start_timestamp |-> r.start_time, audio_duration |-> r.duration, segments |-> segments]

\* what discard_audio(s, duration) takes from the head of the buffer
RemovedBy(s, duration) ==
    IF duration = 0 THEN [cleared |-> FALSE, ms |-> 0]
    ELSE IF duration * WHISPER_SAMPLES_PER_MILLISECOND >= RunsLen(s.audio)
         THEN [cleared |-> TRUE, ms |-> 0]
         ELSE [cleared |-> FALSE, ms |-> duration]

\* history kept with each request in flight: `behind` is how many ms have been
\* removed from the head of the buffer since the request was issued, -1 once the
\* buffer it was issued for has been cleared
InFlightAfter(fl, removed) ==
    {[r EXCEPT !.behind = IF removed.cleared \/ @ = -1 THEN -1 ELSE @ + removed.ms] : r \in fl}

Init ==
    /\ audio = new(SliceId).audio
    /\ finalized = new(SliceId).finalized
    /\ last_request = new(SliceId).last_request
    /\ slice_id = new(SliceId).slice_id
    /\ start_time = new(SliceId).start_time
    /\ tentative_transcript_opt = new(SliceId).tentative_transcript_opt
    /\ now = NowInit
    /\ in_flight = {}
    /\ panicked = FALSE
    /\ tentative_behind = 0
    /\ silences = 0
    /\ call = [op |-> "new"]

\* add_audio(rtc_timestamp, discord_audio), while the buffer holds at most max_len
AddAudioUpTo(packets, max_len) ==
    \E packet \in packets, dt \in TimeSteps :
        LET rtc_timestamp == packet[1]
            discord_audio == packet[2]
            reads_clock == ~start_time.some
            t == IF reads_clock THEN now + dt ELSE now
            s == add_audio(Slice, rtc_timestamp, discord_audio, t)
        IN  /\ ~panicked
            /\ reads_clock \/ dt = 1000
            /\ t <= MaxNow
            /\ RunsLen(s.audio) <= max_len
            /\ SetSlice(s)
            /\ now' = t
            /\ call' = [op |-> "add_audio",
                        fits |-> fits_within_this_slice(Slice, rtc_timestamp)]
            /\ UNCHANGED <<in_flight, panicked, tentative_behind, silences>>

\* add_audio(rtc_timestamp, discord_audio)
AddAudio(packets) == AddAudioUpTo(packets, MaxAudioLen)

\* make_transcription_request(user_idle); the request it returns is in flight
MakeRequest ==
    \E user_idle \in BOOLEAN, dt \in TimeSteps :
        LET r == make_transcription_request(Slice, user_idle, now + dt)
        IN  /\ ~panicked
            /\ ~is_ready_panics(Slice, user_idle)
            /\ r.ret.some \/ dt = 1000
            /\ r.ret.some => now + dt <= MaxNow
            /\ SetSlice(r.slice)
            /\ now' = IF r.ret.some THEN now + dt ELSE now
            /\ in_flight' = IF r.ret.some
                            THEN in_flight \cup {[start_time |-> r.ret.v.start_time,
                                                  duration |-> r.ret.v.duration,
                                                  behind |-> 0]}
                            ELSE in_flight
            /\ call' = [op |-> "make_transcription_request", user_idle |-> user_idle,
                        ret |-> r.ret,
                        prev |-> IF call.op = "make_transcription_request"
                                 THEN SomeV([user_idle |-> call.user_idle,
                                             returned |-> call.ret.some])
                                 ELSE NoneV]
            /\ UNCHANGED <<panicked, tentative_behind, silences>>

\* make_transcription_request(false) panics in effective_duration()
MakeRequestPanics ==
    /\ ~panicked
    /\ is_ready_panics(Slice, FALSE)
    /\ panicked' = TRUE
    /\ call' = [op |-> "make_transcription_request", user_idle |-> FALSE,
                ret |-> NoneV, prev |-> NoneV]
    /\ UNCHANGED <<sliceVars, now, in_flight, tentative_behind, silences>>

\* the worker answers a request in flight: handle_transcription_response(message)
Deliver ==
    \E r \in in_flight :
      \E segments \in Segmentations(r.duration) :
        LET message == ResponseTo(r, segments)
            accepted == response_matches(Slice, message)
            end_time == IF accepted THEN response_end_time(last_request.v, now) ELSE 0
        IN  \E cut \in SplitPoints(message, end_time) :
              LET h == handle_transcription_response(Slice, message, now, cut)
                  removed == IF accepted THEN RemovedBy(Slice, cut)
                             ELSE [cleared |-> FALSE, ms |-> 0]
              IN  /\ ~panicked
                  /\ accepted \/ cut = 0
                  /\ SetSlice(h.slice)
                  /\ in_flight' = InFlightAfter(in_flight \ {r}, removed)
                  /\ tentative_behind' = IF accepted THEN 0 ELSE tentative_behind
                  /\ call' = [op |-> "handle_transcription_response", message |-> message,
                              accepted |-> accepted, behind |-> r.behind,
                              removed |-> removed, ret |-> h.ret]
                  /\ UNCHANGED <<now, panicked, silences>>

\* finalize(); with `counted`, the silences are counted (up to MaxSilences)
Finalize(counted) ==
    LET f == finalize(Slice)
        removed == [cleared |-> f.ret.some, ms |-> 0]
    IN  /\ ~panicked
        /\ SetSlice(f.slice)
        /\ in_flight' = InFlightAfter(in_flight, removed)
        /\ tentative_behind' = 0
        /\ silences' = IF counted /\ ~finalized /\ silences < MaxSilences
                       THEN silences + 1 ELSE silences
        /\ call' = [op |-> "finalize", behind |-> tentative_behind, ret |-> f.ret]
        /\ UNCHANGED <<now, panicked>>

\* discard_audio(duration), called from outside the slice
Discard ==
    \E duration \in DiscardDurations(Slice) :
        LET removed == RemovedBy(Slice, duration)
        IN  /\ ~panicked
            /\ SetSlice(discard_audio(Slice, duration))
            /\ in_flight' = InFlightAfter(in_flight, removed)
            /\ tentative_behind' = IF removed.cleared THEN 0 ELSE tentative_behind + removed.ms
            /\ call' = [op |-> "discard_audio", duration |-> duration,
                        len |-> RunsLen(audio)]
            /\ UNCHANGED <<now, panicked, silences>>

\* clear(), called from outside the slice
Clear ==
    /\ ~panicked
    /\ SetSlice(clear(Slice))
    /\ in_flight' = InFlightAfter(in_flight, [cleared |-> TRUE, ms |-> 0])
    /\ tentative_behind' = 0
    /\ call' = [op |-> "clear"]
    /\ UNCHANGED <<now, panicked, silences>>

\* the slice as its owner drives it: audio in, requests out, responses back,
\* the speaker going silent; nothing discards or clears it from outside
Next == AddAudio(Packets) \/ MakeRequest \/ Deliver \/ Finalize(FALSE)

Spec == Init /\ [][Next]_vars

\* every public operation of the slice, discard_audio and clear included
NextOps ==
    \/ AddAudio(PacketsOps)
    \/ MakeRequest
    \/ MakeRequestPanics
    \/ Deliver
    \/ Finalize(FALSE)
    \/ Discard
    \/ Clear

SpecOps == Init /\ [][NextOps]_vars

\* the slice as its owner drives it, with audio that comes half a minute on
NextFar ==
    \/ AddAudio(PacketsSilences)
    \/ AddAudioUpTo(PacketsFar, MaxFarLen)
    \/ MakeRequest
    \/ Deliver
    \/ Finalize(FALSE)

SpecFar == Init /\ [][NextFar]_vars

\* the slice as its owner drives it, the speaker's silences counted
NextSilences == AddAudio(PacketsSilences) \/ MakeRequest \/ Deliver \/ Finalize(TRUE)

SpecSilences == Init /\ [][NextSilences]_vars

\* a response that has just been accepted is handed to
\* handle_transcription_response a second time, before anything else is called
Replay ==
    /\ ~panicked
    /\ call.op = "handle_transcription_response"
    /\ call.accepted
    /\ LET message == call.message
           accepted == response_matches(Slice, message)
           end_time == IF accepted THEN response_end_time(last_request.v, now) ELSE 0
           behind == IF call.removed.cleared \/ call.behind = -1 THEN -1
                     ELSE call.behind + call.removed.ms
       IN  \E cut \in SplitPoints(message, end_time) :
             LET h == handle_transcription_response(Slice, message, now, cut)
                 removed == IF accepted THEN RemovedBy(Slice, cut)
                            ELSE [cleared |-> FALSE, ms |-> 0]
             IN  /\ accepted \/ cut = 0
                 /\ SetSlice(h.slice)
                 /\ in_flight' = InFlightAfter(in_flight, removed)
                 /\ tentative_behind' = IF accepted THEN 0 ELSE tentative_behind
                 /\ call' = [op |-> "handle_transcription_response", message |-> message,
                             accepted |-> accepted, behind |-> behind,
                             removed |-> removed, ret |-> h.ret]
                 /\ UNCHANGED <<now, panicked, silences>>

\* the slice as its owner drives it, a response sometimes coming twice
NextReplay ==
    \/ AddAudio(PacketsSilences)
    \/ MakeRequest
    \/ Deliver
    \/ Replay
    \/ Finalize(FALSE)

SpecReplay == Init /\ [][NextReplay]_vars

\* ---------------------------------------------------------------- claims

\* the match the response handler is specified to make: a last request exists and
\* the response carries its start time and its original duration
C1_Matches(lr, message) ==
    /\ lr.some
    /\ message.start_timestamp = lr.v.start_time
    /\ message.audio_duration = lr.v.original_duration

\* C1: handle_transcription_response accepts a response only if last_request
\* exists and the response's start_timestamp and audio_duration equal its
\* start_time and original_duration; for any other response it returns None and
\* leaves every field of the slice as it was (in_progress stays set).
C1_MismatchIgnored ==
    [][(call'.op = "handle_transcription_response"
            /\ ~C1_Matches(last_request, call'.message))
        => (call'.ret = NoneV /\ UNCHANGED sliceVars)]_vars

\* C1 witness: a response was delivered that does not match the request still in
\* progress, which stays in progress.
C1_Witness ==
    /\ call.op = "handle_transcription_response"
    /\ last_request.some
    /\ last_request.v.in_progress
    /\ call.message.start_timestamp = last_request.v.start_time
    /\ call.message.audio_duration # last_request.v.original_duration
    /\ call.ret = NoneV

C4_Differs ==
    \/ last_request.v.start_time # start_time.v.wall
    \/ last_request.v.original_duration # buffer_duration(Slice)

\* C4: on a slice that is not finalized, has a start and has a request in
\* progress, make_transcription_request(true) returns Some whenever the current
\* (start_wall, buffer_duration) differs from the request's, and
\* make_transcription_request(false) returns None.
C4_IdleRequestsWhileInProgress ==
    (/\ ~finalized
     /\ start_time.some
     /\ last_request.some
     /\ last_request.v.in_progress
     /\ C4_Differs)
    => /\ make_transcription_request(Slice, TRUE, now).ret.some
       /\ ~make_transcription_request(Slice, FALSE, now).ret.some

\* the pair of calls C5 leaves out: the first, not idle, returned None and the
\* second is idle
C5_NowIdle(first, second_idle) == ~first.user_idle /\ ~first.returned /\ second_idle

\* C5: when make_transcription_request is called twice with no other call in
\* between, the second call returns None and issues no new request, unless the
\* first call had user_idle = false and returned None and the second has
\* user_idle = true.
C5_SecondCallReturnsNone ==
    [][(/\ call.op = "make_transcription_request"
        /\ call'.op = "make_transcription_request"
        /\ ~C5_NowIdle([user_idle |-> call.user_idle, returned |-> call.ret.some],
                       call'.user_idle))
       => (call'.ret = NoneV /\ ~panicked' /\ in_flight' = in_flight)]_vars

\* C5 as stated: for every pair of user_idle arguments the second call returns
\* None and issues no new request.
C5_SecondCallAlwaysNone ==
    [][(/\ call.op = "make_transcription_request"
        /\ call'.op = "make_transcription_request")
       => (call'.ret = NoneV /\ ~panicked' /\ in_flight' = in_flight)]_vars

\* C5 witness: a second call right after a call that returned a request; it
\* returned None and the request is still the one in progress.
C5_Witness ==
    /\ call.op = "make_transcription_request"
    /\ call.prev.some
    /\ call.prev.v.returned
    /\ call.ret = NoneV
    /\ last_request.some
    /\ last_request.v.in_progress
    /\ Cardinality(in_flight) = 1

\* the last effective duration: what was requested less what was trimmed since,
\* 0 when nothing was requested
C6_LastEffective ==
    IF last_request.some
    THEN last_request.v.original_duration - last_request.v.audio_trimmed_since_request
    ELSE 0

\* what make_transcription_request(false) returns for the slice as it is
C6_Returned == make_transcription_request(Slice, FALSE, now).ret

\* C6: with no request in progress, finalized false and user_idle false,
\* make_transcription_request returns Some iff floor(buffer_duration / 5000 ms)
\* differs from floor(last effective duration / 5000 ms); a fresh slice with
\* 4999 ms of audio yields None and with 5001 ms yields Some of 5001 ms.
C6_PeriodRule ==
    (~finalized /\ ~(last_request.some /\ last_request.v.in_progress))
    => /\ C6_Returned.some
            <=> (samples_to_duration(RunsLen(audio)) \div 5000) # (C6_LastEffective \div 5000)
       /\ C6_Returned.some => C6_Returned.v.duration = samples_to_duration(RunsLen(audio))
       /\ (last_request = NoneV /\ RunsLen(audio) = 4999 * 16) => C6_Returned = NoneV
       /\ (last_request = NoneV /\ RunsLen(audio) = 5001 * 16)
            => (C6_Returned.some /\ C6_Returned.v.duration = 5001)

\* C6 witness: make_transcription_request(false) has returned the 5001 ms of a
\* slice not requested before (its start is the request's).
C6_Witness ==
    /\ call.op = "make_transcription_request"
    /\ ~call.user_idle
    /\ call.ret.some
    /\ call.ret.v.duration = 5001
    /\ last_request.v.original_duration = 5001
    /\ last_request.v.audio_trimmed_since_request = 0
    /\ ~last_request.v.final_request

\* durations tried on discard_audio
C7_Durations == {1, 250, 251, 499, 500, 1000, 1749}

C8_Cleared ==
    [audio |-> <<>>, finalized |-> FALSE, last_request |-> NoneV, slice_id |-> slice_id,
     start_time |-> NoneV, tentative_transcript_opt |-> NoneV]

\* durations tried on discard_audio, around what the buffer holds
C8_Durations ==
    {samples_to_duration(RunsLen(audio)), samples_to_duration(RunsLen(audio)) + 1, 500, 2000}

\* C8: discard_audio(d) with d > 0 and d * 16 >= audio.len() is equivalent to
\* clear(): afterwards audio is empty, start, last_request and the tentative
\* transcript are None and finalized is false.  With d = buffer_duration() on a
\* buffer that is not a whole number of milliseconds, d * 16 < audio.len(): the
\* samples of the last part of a millisecond stay and start stays set.
C8_DiscardAllClears ==
    \A d \in C8_Durations :
        /\ (d > 0 /\ d * 16 >= RunsLen(audio))
            => (discard_audio(Slice, d) = C8_Cleared /\ C8_Cleared = clear(Slice))
        /\ (d > 0 /\ d >= samples_to_duration(RunsLen(audio)) /\ d * 16 < RunsLen(audio))
            => /\ RunsLen(discard_audio(Slice, d).audio) = RunsLen(audio) % 16
               /\ discard_audio(Slice, d).start_time.some

\* C8 as stated: discard_audio(d) with d > 0 and d >= buffer_duration() is
\* equivalent to clear(), for every buffer length.
C8_DiscardDurationClears ==
    \A d \in C8_Durations :
        (d > 0 /\ d >= samples_to_duration(RunsLen(audio)))
        => discard_audio(Slice, d) = C8_Cleared

\* C8 witness: all the buffer held, a whole number of milliseconds, was
\* discarded, and the slice is as clear() leaves it.
C8_Witness ==
    /\ call.op = "discard_audio"
    /\ call.duration > 0
    /\ call.duration * 16 = call.len
    /\ Slice = C8_Cleared

\* media timestamps tried on fits_within_this_slice: around the start of the
\* slice, around the end of its window, and around the wrap of the clock
C9_Timestamps ==
    LET start == IF start_time.some THEN start_time.v.rtc ELSE U32(0)
        window == U32((samples_to_duration(RunsLen(audio)) + 30000) * 48)
    IN  {U32Sub(start, U32(1)), start, U32Add(start, U32(1)),
         U32Add(start, U32Sub(window, U32(1))), U32Add(start, window),
         U32Add(start, U32Add(window, U32(1))),
         U32(0), U32Neg(1), U32(W16), [hi |-> W16 \div 2, lo |-> 0]}

C10_TooFarInTheFuture ==
    (/\ start_time.some
     /\ start_time.v.rtc = U32(1000 * 48)
     /\ RunsLen(audio) = 3500 * 16)
    => /\ add_audio(Slice, U32(8000 * 48), [len |-> 500 * 48 * 2, val |-> 1], now).audio = audio
       /\ add_audio(Slice, U32(8000 * 48), [len |-> 500 * 48 * 2, val |-> 1], now).start_time
            = start_time
       /\ fits_within_this_slice(Slice, U32(1000 * 48))
       /\ ~fits_within_this_slice(Slice, U32(999 * 48))
       /\ fits_within_this_slice(Slice, U32(6499 * 48))
       /\ ~fits_within_this_slice(Slice, U32(6500 * 48))

\* C11: add_audio whose timestamp does not fit within the slice changes nothing
\* of the slice (finalized included): the slice is not reset or restarted.  With
\* start at 1000 * 48, the timestamp 999 * 48 does not fit and is such a no-op.
C11_MisfitIsNoOp ==
    [][/\ (call'.op = "add_audio" /\ ~call'.fits) => UNCHANGED sliceVars
       /\ (start_time.some /\ start_time.v.rtc = U32(1000 * 48))
            => /\ ~fits_within_this_slice(Slice, U32(999 * 48))
               /\ add_audio(Slice, U32(999 * 48), [len |-> 500 * 48 * 2, val |-> 1], now)
                    = Slice]_vars

\* C11 witness: audio stamped before the start of a finalized slice with a
\* request in progress was offered and dropped; the slice is still finalized.
C11_Witness ==
    /\ call.op = "add_audio"
    /\ ~call.fits
    /\ start_time.some
    /\ start_time.v.rtc = U32(1000 * 48)
    /\ audio # <<>>
    /\ finalized
    /\ last_request.some
    /\ last_request.v.in_progress

\* C12: a slice holds at most 30 s of audio: buffer_duration() is never more than
\* AUDIO_TO_RECORD_SECONDS * 1000 ms and audio.len() never more than the capacity
\* of 480 000 samples.
C12_AtMostThirtySeconds ==
    /\ samples_to_duration(RunsLen(audio)) <= AUDIO_TO_RECORD_SECONDS * 1000
    /\ RunsLen(audio) <= WHISPER_AUDIO_BUFFER_SIZE

\* C13: finalize() returns Some(tentative) iff there was a tentative transcript
\* whose audio_duration was buffer_duration(); then the slice is afterwards as
\* new(slice_id) makes it.  Otherwise it returns None, finalized is true, and
\* audio, start and last_request are as they were.
C13_FinalizeReturnsCurrentTentative ==
    [][call'.op = "finalize"
       => /\ call'.ret.some
                <=> /\ tentative_transcript_opt.some
                    /\ tentative_transcript_opt.v.audio_duration
                         = samples_to_duration(RunsLen(audio))
          /\ call'.ret.some
                => /\ call'.ret = tentative_transcript_opt
                   /\ SliceNext = new(slice_id)
                   /\ ~finalized'
          /\ ~call'.ret.some
                => /\ finalized'
                   /\ audio' = audio
                   /\ start_time' = start_time
                   /\ last_request' = last_request]_vars

\* C13 witness: finalize() has returned a tentative transcript with segments and
\* the slice is as a new one.
C13_Witness ==
    /\ call.op = "finalize"
    /\ call.ret.some
    /\ call.ret.v.segments # <<>>
    /\ call.ret.v.audio_duration > 0
    /\ Slice = new(slice_id)

\* C14: when finalize() has returned None with a request in progress and the
\* next call is the accepted response to that request (no audio in between), the
\* response returns all its segments as finalized and the slice is left as
\* new(slice_id) makes it: empty, with no tentative transcript.
C14_ResponseAfterFinalizeClosesGap ==
    [][(/\ call.op = "finalize"
        /\ call.ret = NoneV
        /\ last_request.some
        /\ last_request.v.in_progress
        /\ call'.op = "handle_transcription_response"
        /\ call'.accepted)
       => /\ call'.message.segments # <<>>
               => (call'.ret.some /\ call'.ret.v.segments = call'.message.segments)
          /\ SliceNext = new(slice_id)]_vars

\* C15: start is Some iff audio is non-empty or a request is in progress.
C15_StartIffAudioOrRequest ==
    start_time.some <=> (audio # <<>> \/ (last_request.some /\ last_request.v.in_progress))

\* C16: where last_request exists, original_duration >= audio_trimmed_since_request,
\* and no call has panicked in effective_duration().
C16_TrimmedWithinRequested ==
    /\ ~panicked
    /\ last_request.some
         => last_request.v.original_duration >= last_request.v.audio_trimmed_since_request

\* C17: clear() followed by add_audio(ts, frames) leaves the slice as new(slice_id)
\* followed by the same add_audio does, whatever the slice was before clear().
C17_ClearThenAddAsNew ==
    \A packet \in Packets :
        add_audio(clear(Slice), packet[1], packet[2], now)
            = add_audio(new(slice_id), packet[1], packet[2], now)

\* C17 witness: a slice with everything set (audio, start, a last request, a
\* tentative transcript, finalized) on which the two ways are compared.
C17_Witness ==
    /\ audio # <<>>
    /\ start_time.some
    /\ last_request.some
    /\ tentative_transcript_opt.some
    /\ tentative_transcript_opt.v.segments # <<>>
    /\ finalized
    /\ call.op = "handle_transcription_response"

\* C18: finalize() does not return a tentative transcript right after an accepted
\* add_audio: audio gathered since the tentative transcript was stored makes
\* finalize() drop it.
C18_TentativeIsCurrent ==
    [][(call.op = "add_audio" /\ call.fits /\ call'.op = "finalize")
       => call'.ret = NoneV]_vars

\* the index C19 says add_audio writes at: the offset from start.media_ts to ts
\* (modulo 2^32, below 2^31 for a timestamp that fits) in 16 kHz samples
C19_StartIndex(ts) ==
    IF start_time.some
    THEN LET offset == U32Sub(ts, start_time.v.rtc)
         IN  ((offset.hi * W16 + offset.lo) * 16) \div 48
    ELSE 0

\* C19: an accepted add_audio(ts, frames) with n = len(frames) / 6 writes its n
\* samples at start_index, makes audio.len() max(old len, start_index + n), leaves
\* a start already set, leaves the samples before start_index and from
\* start_index + n on as they were, and fills a new gap between the old end and
\* start_index with 0.0; a packet inside the buffer does not change audio.len().
\* 100 ms at 1000 ms and then 100 ms at 1500 ms give 600 ms: payload, 400 ms of
\* 0.0, payload.
C19_AddAudioWrites ==
    /\ \A packet \in Packets :
         LET ts == packet[1]
             n == packet[2].len \div 6
             start_index == C19_StartIndex(ts)
             after == add_audio(Slice, ts, packet[2], now)
         IN  fits_within_this_slice(Slice, ts)
             => /\ RunsLen(after.audio)
                     = IF RunsLen(audio) > start_index + n
                       THEN RunsLen(audio) ELSE start_index + n
                /\ start_time.some => after.start_time = start_time
                /\ RunsTake(after.audio, start_index)
                     = RunsResize(RunsTake(audio, start_index), start_index)
                /\ RunsDrop(after.audio, start_index + n) = RunsDrop(audio, start_index + n)
                /\ n > 0 => RunsTake(RunsDrop(after.audio, start_index), n)
                              = <<[val |-> 2 * packet[2].val, n |-> n]>>
                /\ start_index + n <= RunsLen(audio)
                     => RunsLen(after.audio) = RunsLen(audio)
    /\ LET first == add_audio(new(slice_id), U32(1000 * 48), [len |-> 100 * 96, val |-> 1], now)
           second == add_audio(first, U32(1500 * 48), [len |-> 100 * 96, val |-> 2], now)
       IN  second.audio = <<[val |-> 2, n |-> 100 * 16], [val |-> 0, n |-> 400 * 16],
                            [val |-> 4, n |-> 100 * 16]>>

\* C19 witness: audio was added past a gap, which holds 0.0, and then a packet
\* inside the buffer was written in place.
C19_Witness ==
    /\ call.op = "add_audio"
    /\ call.fits
    /\ Len(audio) = 4
    /\ audio[2].val = 6
    /\ audio[2].n = 8
    /\ audio[3].val = 0
    /\ RunsLen(audio) = 3500 * 16

\* the cutoff of the response to the last request: far ahead for a final
\* request, else USER_SILENCE_TIMEOUT before the request was made
C20_Cutoff ==
    IF last_request.v.final_request THEN now + 1000 * 1000
    ELSE last_request.v.requested_at - 1000

\* C20: an accepted response that splits into (final, tentative), whose durations
\* sum to the response's, leaves no request in progress, takes exactly
\* final.audio_duration from the head of audio, stores the tentative half iff the
\* buffer_duration() after the discard equals tentative.audio_duration (else the
\* tentative transcript is None), and returns Some(final) iff final has a segment.
C20_AcceptedResponse ==
    [][(call'.op = "handle_transcription_response" /\ call'.accepted)
       => \E cut \in SplitPoints(call'.message, C20_Cutoff) :
            LET halves == split_at_end_time(call'.message, C20_Cutoff, cut)
                final == halves.finalized
                tentative == halves.tentative
            IN  /\ final.audio_duration + tentative.audio_duration
                     = call'.message.audio_duration
                /\ ~(last_request'.some /\ last_request'.v.in_progress)
                /\ audio' = RunsDrop(audio, final.audio_duration * 16)
                /\ tentative_transcript_opt'
                     = IF samples_to_duration(RunsLen(audio')) = tentative.audio_duration
                       THEN SomeV(tentative) ELSE NoneV
                /\ call'.ret = IF final.segments # <<>> THEN SomeV(final) ELSE NoneV]_vars

\* C20 witness: an accepted response returned its finalized segments, and its
\* tentative half was dropped because audio had arrived since the request.
C20_Witness ==
    /\ call.op = "handle_transcription_response"
    /\ call.accepted
    /\ call.ret.some
    /\ call.ret.v.audio_duration < call.message.audio_duration
    /\ Len(call.message.segments) = 2
    /\ tentative_transcript_opt = NoneV
    /\ audio # <<>>
    /\ last_request.some
    /\ ~last_request.v.in_progress

\* the segments of `message` that end on or before the wall time `cutoff`
C21_Stable(message, cutoff) ==
    SelectSeq(message.segments, LAMBDA g : message.start_timestamp + g.t_end <= cutoff)

\* C21: the accepted response to a request whose final_request is true has all its
\* segments finalized and an empty tentative part; with final_request false,
\* the segments ending on or before requested_at - 1000 ms are finalized and the
\* rest are tentative.
C21_FinalRequestFinalizesAll ==
    [][(call'.op = "handle_transcription_response" /\ call'.accepted)
       => LET message == call'.message
              stable == IF last_request.v.final_request THEN message.segments
                        ELSE C21_Stable(message, last_request.v.requested_at - 1000)
          IN  /\ call'.ret.some <=> stable # <<>>
              /\ call'.ret.some => call'.ret.v.segments = stable
              /\ tentative_transcript_opt'.some
                   => Len(tentative_transcript_opt'.v.segments)
                        = Len(message.segments) - Len(stable)]_vars

\* C21 witness: the response to a final request was accepted and both its segments
\* returned, the second ending later than 1000 ms before the request was made.
C21_Witness ==
    /\ call.op = "handle_transcription_response"
    /\ call.accepted
    /\ call.ret.some
    /\ Len(call.message.segments) = 2
    /\ call.ret.v.segments = call.message.segments
    /\ last_request.some
    /\ last_request.v.final_request
    /\ call.message.start_timestamp + call.message.segments[2].t_end
         > last_request.v.requested_at - 1000

\* the requests in flight whose response handle_transcription_response would
\* accept now: those with last_request's start time and original duration
C22_Current ==
    {r \in in_flight :
        /\ last_request.some
        /\ r.start_time = last_request.v.start_time
        /\ r.duration = last_request.v.original_duration}

\* C22: of the requests of the slice that are outstanding at once, at most one
\* has a response that is accepted: at any time at most one of them agrees with
\* last_request in start and duration, so a response delivered while the others
\* are still out is accepted for that one only, once a response has been
\* accepted the response delivered next, for any of the others, is ignored, and no
\* request is issued with the start and duration of one that is still out.
C22_OneOfTwoAccepted ==
    [][/\ call'.op = "handle_transcription_response"
          => /\ Cardinality(C22_Current) <= 1
             /\ call'.accepted
                  => /\ call'.message.start_timestamp = last_request.v.start_time
                     /\ call'.message.audio_duration = last_request.v.original_duration
             /\ (call.op = "handle_transcription_response" /\ call.accepted)
                  => (~call'.accepted /\ call'.ret = NoneV /\ UNCHANGED sliceVars)
       /\ (call'.op = "make_transcription_request" /\ call'.ret.some)
          => \A r \in in_flight :
               \/ r.start_time # call'.ret.v.start_time
               \/ r.duration # call'.ret.v.duration]_vars

\* C22 witness: two requests were out at once; the response to the later one was
\* accepted, and the earlier one, still out, differs from last_request in duration.
C22_Witness ==
    /\ call.op = "handle_transcription_response"
    /\ call.accepted
    /\ last_request.some
    /\ Cardinality(in_flight) = 1
    /\ \A r \in in_flight :
         /\ r.start_time = last_request.v.start_time
         /\ r.duration < last_request.v.original_duration

\* last_request has the start and the duration of the snapshot a request would
\* take now
C23_Duplicate ==
    /\ start_time.some
    /\ last_request.some
    /\ last_request.v.start_time = start_time.v.wall
    /\ last_request.v.original_duration = samples_to_duration(RunsLen(audio))

\* C23: make_transcription_request on a slice whose last_request has the
\* snapshot's start and duration returns None and changes nothing of the slice
\* but last_request.final_request, which becomes true if the slice is finalized
\* and otherwise stays as it is.
C23_DuplicateOnlySetsFinal ==
    [][(C23_Duplicate /\ call'.op = "make_transcription_request")
       => /\ call'.ret = NoneV
          /\ in_flight' = in_flight
          /\ last_request'
               = SomeV([last_request.v EXCEPT !.final_request = @ \/ finalized])
          /\ UNCHANGED <<audio, finalized, slice_id, start_time,
                         tentative_transcript_opt>>]_vars

\* C23 witness: a request made before the slice was finalized is still in
\* progress; make_transcription_request has found it again on the finalized
\* slice, returned None and marked it final.
C23_Witness ==
    /\ call.op = "make_transcription_request"
    /\ call.ret = NoneV
    /\ C23_Duplicate
    /\ finalized
    /\ last_request.v.final_request
    /\ last_request.v.in_progress
    /\ tentative_transcript_opt = NoneV
    /\ in_flight = {[start_time |-> last_request.v.start_time,
                     duration |-> last_request.v.original_duration, behind |-> 0]}

\* offsets in media ticks, all inside the window of any slice, that carry a
\* timestamp a quarter of a second before the wrap past zero: onto zero, one
\* and two ticks after it, 1250 ms and one tick less than 30 000 ms
C24_Offsets == {250 * 48, 250 * 48 + 1, 250 * 48 + 2, 1250 * 48, 30000 * 48 - 1}

\* frames tried: half a second, and a single output sample
C24_Frames == {FrameOfMs(500, 1), [len |-> 6, val |-> 3]}

\* the slice with its start moved to media time 1000 ms, where no timestamp of
\* its window wraps
C24_Unwrapped == [Slice EXCEPT !.start_time.v.rtc = RtcOfMs(1000)]

\* C24: for a slice that starts a quarter of a second before the media clock
\* wraps and a timestamp k ticks later that has wrapped past zero, k inside the
\* window, add_audio accepts the frames and writes them at sample floor(k / 3),
\* growing the buffer only if they end beyond it; every field of the result is
\* what add_audio gives for the slice starting at 1000 ms and the offset k.
C24_WrapIsTransparent ==
    (start_time.some /\ start_time.v.rtc = RtcBeforeWrap)
    => \A k \in C24_Offsets, f \in C24_Frames :
         LET ts == U32Add(RtcBeforeWrap, U32(k))
             wrapped == add_audio(Slice, ts, f, now)
             plain == add_audio(C24_Unwrapped, U32Add(RtcOfMs(1000), U32(k)), f, now)
             at == k \div 3
             end == at + f.len \div 6
             len == IF RunsLen(audio) > end THEN RunsLen(audio) ELSE end
         IN  /\ U32Lt(ts, RtcBeforeWrap)
             /\ fits_within_this_slice(Slice, ts)
             /\ add_audio_start_index(Slice, ts) = at
             /\ wrapped.audio = RunsFill(RunsResize(audio, len), at, end, f.val * 2)
             /\ wrapped = [plain EXCEPT !.start_time.v.rtc = RtcBeforeWrap]
             /\ wrapped = [Slice EXCEPT !.audio = wrapped.audio, !.finalized = FALSE]

\* C24 witness: the slice began a quarter of a second before the wrap and holds
\* that packet's half second; add_audio has then written the half second stamped
\* 1000 ms after the wrap at sample 1250 * 16, behind a gap of zeros.
C24_Witness ==
    /\ call.op = "add_audio"
    /\ call.fits
    /\ start_time.some
    /\ start_time.v.rtc = RtcBeforeWrap
    /\ Len(audio) = 3
    /\ audio[1].n = 500 * 16
    /\ audio[2].val = 0
    /\ audio[3].n = 500 * 16
    /\ RunsLen(audio) = 1750 * 16

\* C25: when handle_transcription_response has accepted a response and the next
\* call hands it a response with the same start_timestamp and audio_duration,
\* no request having been issued in between, that call returns None and leaves
\* every field of the slice as it was.
C25_SecondResponseIgnored ==
    [][(/\ call.op = "handle_transcription_response"
        /\ call.accepted
        /\ call'.op = "handle_transcription_response"
        /\ call'.message.start_timestamp = call.message.start_timestamp
        /\ call'.message.audio_duration = call.message.audio_duration)
       => (call'.ret = NoneV /\ UNCHANGED sliceVars)]_vars

\* the response accepted a moment ago has been accepted again: it has returned
\* a finalized transcript a second time and taken its audio off the buffer again
C25_AcceptedTwice ==
    /\ call.op = "handle_transcription_response"
    /\ call.accepted
    /\ call.behind > 0
    /\ call.ret.some
    /\ call.removed.ms > 0
    /\ in_flight = {}
    /\ last_request.some
    /\ ~last_request.v.in_progress
    /\ last_request.v.audio_trimmed_since_request = call.behind + call.removed.ms

\* C26: whenever the slice has both a start and a last request, the wall-clock
\* start is the last request's start_time plus its audio_trimmed_since_request.
C26_RequestAlignedWithBuffer ==
    (start_time.some /\ last_request.some)
    => start_time.v.wall
         = last_request.v.start_time + last_request.v.audio_trimmed_since_request

\* C26 witness: audio at the head of the buffer has been finalized by a response
\* and more has then been discarded from outside, so the last request has
\* trimmed audio from both, and the slice still has a start.
C26_Witness ==
    /\ call.op = "discard_audio"
    /\ call.duration > 0
    /\ start_time.some
    /\ last_request.some
    /\ ~last_request.v.in_progress
    /\ last_request.v.audio_trimmed_since_request > call.duration
    /\ audio # <<>>

====
